---- MODULE Spec2Model ----
(***************************************************************************)
(* Model of the spacerace game: the Spaceship rigid body of physics.py and *)
(* the frame loop of main.py with its gate-pass and asteroid-collision     *)
(* steps.                                                                  *)
(*                                                                         *)
(* Numbers: the program computes in floating point.  The model computes in *)
(* exact integer arithmetic and draws every input (forces, torques, dt,    *)
(* positions, sizes) from sets on which each division of the code is exact *)
(* (forces are multiples of the mass, torques multiples of the inertia),   *)
(* so that x \div m below is the real quotient x/m.  A distance test       *)
(* norm(d) < r is computed as r > 0 /\ d.d < r*r.                          *)
(* Vectors are tuples; index i of the code is index i+1 here.              *)
(***************************************************************************)
EXTENDS Integers, Sequences, FiniteSets, TLC

VARIABLES
    ship,               \* the Spaceship object (physics.py)
    op,                 \* SpecShip: the last call made on the ship
    calls,              \* SpecShip: number of calls made so far
    frame_start,        \* SpecShip: the ship when the current frame's calls began
    frame_calls,        \* SpecShip: apply_force/apply_torque calls since then
    last_dt,            \* SpecShip: argument of the last update call
    settings,           \* main.py: the loaded configuration
    joystick,           \* main.py: TRUE iff a joystick was initialised
    scene_gates,        \* main.py: list of Gate objects
    scene_asteroids,    \* main.py: list of Asteroid objects
    camera,             \* main.py: the chase Camera
    current_gate_index, \* main.py
    game_over,          \* main.py
    running,            \* main.py
    dt,                 \* main.py: this frame's time step
    keys,               \* main.py: the keys held down in this frame
    axes,               \* main.py: the joystick axes read in this frame
    pc,                 \* main.py: position of main() in the frame
    course_file,        \* the course file on disk
    selected_object,    \* designer.py: the selection, <<>> (None) or <<kind, index>>
    scene,              \* SpecRender: the object handed to the renderer
    screen,             \* SpecRender: the lines drawn on the pygame surface
    projected,          \* SpecRender: the screen points project_point returned
    quat,               \* SpecQuat: arguments and results of the quaternion helpers
    exc                 \* the uncaught exception that ended the program, or "none"

shipvars == <<ship, op, calls, frame_start, frame_calls, last_dt>>
loopvars == <<settings, joystick, scene_gates, scene_asteroids, camera,
              current_gate_index, game_over, running, dt, keys, axes, pc,
              course_file, selected_object, scene, screen, projected, quat>>
vars == <<ship, op, calls, frame_start, frame_calls, last_dt, settings, joystick,
          scene_gates, scene_asteroids, camera, current_gate_index, game_over,
          running, dt, keys, axes, pc, exc,
          course_file, selected_object, scene, screen, projected, quat>>

(***************************************************************************)
(* Bounds of the model.                                                    *)
(***************************************************************************)
\* SpecShip: number of calls made on one ship
MaxCalls == 4
\* SpecShip: number of apply_* calls recorded for one frame
MaxFrameCalls == 3
\* Spec: number of gates and of asteroids in the loaded course
MaxGates == 2
MaxAsteroids == 2
\* Spec: number of events delivered to one frame
MaxEvents == 2
\* SpecLoad: number of gate records in the course file
MaxFileGates == 3

(***************************************************************************)
(* Vector helpers.                                                         *)
(***************************************************************************)
Zero3 == <<0, 0, 0>>

\* physics.py add_vectors: reads components 0..2 only and returns a 3-list
add_vectors(v1, v2) == <<v1[1] + v2[1], v1[2] + v2[2], v1[3] + v2[3]>>

\* physics.py scale_vector, for an integer scalar
scale_vector(v, s) == <<v[1] * s, v[2] * s, v[3] * s>>

\* scale_vector(v, 1.0 / m): the quotient v/m (exact on the model's inputs)
scale_inverse(v, m) == <<v[1] \div m, v[2] \div m, v[3] \div m>>

\* np.linalg.norm(q) squared, for a vector of any length
norm_squared(q) ==
    LET RECURSIVE sum(_)
        sum(i) == IF i = 0 THEN 0 ELSE q[i] * q[i] + sum(i - 1)
    IN sum(Len(q))

\* the square root of a perfect square (the model's norms are integers)
exact_sqrt(n) == CHOOSE r \in 0..n : r * r = n

\* np.linalg.norm(v)
norm(v) == exact_sqrt(norm_squared(v))

\* np.cos and np.sin of n quarter turns (n * pi / 2)
cos_quarter_turns(n) == CASE n % 4 = 0 -> 1 [] n % 4 = 2 -> -1 [] OTHER -> 0
sin_quarter_turns(n) == CASE n % 4 = 1 -> 1 [] n % 4 = 3 -> -1 [] OTHER -> 0

(***************************************************************************)
(* Spaceship (physics.py).                                                 *)
(***************************************************************************)
\* Spaceship.__init__
Spaceship(position, velocity, orientation, mass) ==
    [position         |-> position,
     velocity         |-> velocity,
     orientation      |-> orientation,
     angular_velocity |-> Zero3,
     mass             |-> mass,
     inertia_tensor   |-> <<1000, 1000, 1000>>,
     total_force      |-> Zero3,
     total_torque     |-> Zero3]

\* variant: the force replaces the accumulator instead of adding to it
apply_force_overwrite(s, force) ==
    [s EXCEPT !.total_force = force]

\* Spaceship.apply_force(force)
apply_force(s, force) ==
    [s EXCEPT !.total_force = add_vectors(s.total_force, force)]

\* Spaceship.apply_torque(torque)
apply_torque(s, torque) ==
    [s EXCEPT !.total_torque = add_vectors(s.total_torque, torque)]

\* 1.0 / self.mass raises ZeroDivisionError for mass 0, before any assignment
update_raises(s) == s.mass = 0

\* variant: the accumulators are not reset
update_keep_accumulators(s, delta_time) ==
    LET linear_acceleration == scale_inverse(s.total_force, s.mass)
        velocity == add_vectors(s.velocity, scale_vector(linear_acceleration, delta_time))
        angular_acceleration == scale_inverse(s.total_torque, 1000)
        angular_velocity ==
            add_vectors(s.angular_velocity, scale_vector(angular_acceleration, delta_time))
    IN [s EXCEPT !.velocity = velocity,
                 !.position = add_vectors(s.position, scale_vector(velocity, delta_time)),
                 !.angular_velocity = angular_velocity,
                 !.orientation =
                     add_vectors(s.orientation, scale_vector(angular_velocity, delta_time))]

\* variant: explicit Euler, the position advances by the OLD velocity
update_explicit_euler(s, delta_time) ==
    LET linear_acceleration == scale_inverse(s.total_force, s.mass)
        angular_acceleration == scale_inverse(s.total_torque, 1000)
        angular_velocity ==
            add_vectors(s.angular_velocity, scale_vector(angular_acceleration, delta_time))
    IN [s EXCEPT !.velocity =
                     add_vectors(s.velocity, scale_vector(linear_acceleration, delta_time)),
                 !.position = add_vectors(s.position, scale_vector(s.velocity, delta_time)),
                 !.angular_velocity = angular_velocity,
                 !.orientation =
                     add_vectors(s.orientation, scale_vector(angular_velocity, delta_time)),
                 !.total_force = Zero3,
                 !.total_torque = Zero3]

\* variant: the orientation advances by the angular acceleration, not the velocity
update_orientation_by_acceleration(s, delta_time) ==
    LET linear_acceleration == scale_inverse(s.total_force, s.mass)
        velocity == add_vectors(s.velocity, scale_vector(linear_acceleration, delta_time))
        angular_acceleration == scale_inverse(s.total_torque, 1000)
    IN [s EXCEPT !.velocity = velocity,
                 !.position = add_vectors(s.position, scale_vector(velocity, delta_time)),
                 !.angular_velocity =
                     add_vectors(s.angular_velocity,
                                 scale_vector(angular_acceleration, delta_time)),
                 !.orientation =
                     add_vectors(s.orientation,
                                 scale_vector(angular_acceleration, delta_time)),
                 !.total_force = Zero3,
                 !.total_torque = Zero3]

\* Spaceship.update(delta_time), when it returns
update(s, delta_time) ==
    LET linear_acceleration == scale_inverse(s.total_force, s.mass)
        velocity == add_vectors(s.velocity, scale_vector(linear_acceleration, delta_time))
        position == add_vectors(s.position, scale_vector(velocity, delta_time))
        angular_acceleration ==
            <<s.total_torque[1] \div s.inertia_tensor[1],
              s.total_torque[2] \div s.inertia_tensor[2],
              s.total_torque[3] \div s.inertia_tensor[3]>>
        angular_velocity ==
            add_vectors(s.angular_velocity, scale_vector(angular_acceleration, delta_time))
        orientation ==
            add_vectors(s.orientation, scale_vector(angular_velocity, delta_time))
    IN [s EXCEPT !.velocity = velocity,
                 !.position = position,
                 !.angular_velocity = angular_velocity,
                 !.orientation = orientation,
                 !.total_force = Zero3,
                 !.total_torque = Zero3]

(***************************************************************************)
(* SpecShip: one Spaceship driven by any sequence of apply_force,          *)
(* apply_torque and update calls.                                          *)
(***************************************************************************)
\* constructor arguments
ShipPositions == {Zero3, <<0, 0, 999>>}
ShipVelocities == {Zero3, <<0, 2, -1>>}
\* [pitch, yaw, roll], as the constructor documents
ShipOrientations == {Zero3, <<10, 0, -20>>}
\* 0 is what _parse_value_with_units yields for an unparsable Ship_weight
ShipMasses == {0, 500, 1000}
\* arguments of the calls
Forces == {<<1000, 0, 0>>, <<0, 0, -2000>>}
Torques == {<<1000, 0, 0>>, <<0, -2000, 3000>>}
DeltaTimes == {0, 1, 2}

NoAxes == [yaw |-> 0, pitch |-> 0, roll |-> 0, thrust |-> 0]

\* the variables of the designer, the renderer and the quaternion helpers, unused
IdleExtras ==
    /\ course_file = [status |-> "missing", race_gates |-> <<>>, asteroids |-> <<>>]
    /\ selected_object = <<>>
    /\ scene = <<>>
    /\ screen = <<>>
    /\ projected = <<>>
    /\ quat = <<>>

\* the variables of the game that hold no object, unused
IdleGame ==
    /\ settings = [starting_vector |-> Zero3, ship_weight |-> 1000,
                   max_forward_thruster |-> 0, invert_pitch |-> TRUE]
    /\ joystick = FALSE
    /\ current_gate_index = 0
    /\ game_over = FALSE
    /\ running = FALSE
    /\ dt = 0
    /\ keys = {}
    /\ axes = NoAxes

IdleLoop ==
    /\ IdleGame
    /\ scene_gates = <<>>
    /\ scene_asteroids = <<>>
    /\ camera = [position |-> <<0, 0, -50>>, target |-> Zero3, up |-> <<0, 1, 0>>]
    /\ pc = "harness"
    /\ IdleExtras

InitShip ==
    /\ \E p \in ShipPositions, v \in ShipVelocities, o \in ShipOrientations,
          m \in ShipMasses :
          ship = Spaceship(p, v, o, m)
    /\ op = "init"
    /\ calls = 0
    /\ frame_start = ship
    /\ frame_calls = <<>>
    /\ last_dt = 0
    /\ exc = "none"
    /\ IdleLoop

\* the history of the frame, extended by one apply_* call
Record(call) ==
    IF op = "update"
    THEN /\ frame_start' = ship
         /\ frame_calls' = <<call>>
    ELSE /\ frame_start' = frame_start
         /\ frame_calls' = Append(frame_calls, call)

CanCall ==
    /\ pc = "harness"
    /\ exc = "none"
    /\ calls < MaxCalls

CallApplyForce ==
    /\ CanCall
    /\ op = "update" \/ Len(frame_calls) < MaxFrameCalls
    /\ \E f \in Forces :
          /\ ship' = apply_force(ship, f)
          /\ Record(<<"force", f>>)
    /\ op' = "apply_force"
    /\ calls' = calls + 1
    /\ UNCHANGED <<last_dt, exc>>
    /\ UNCHANGED loopvars

CallApplyTorque ==
    /\ CanCall
    /\ op = "update" \/ Len(frame_calls) < MaxFrameCalls
    /\ \E t \in Torques :
          /\ ship' = apply_torque(ship, t)
          /\ Record(<<"torque", t>>)
    /\ op' = "apply_torque"
    /\ calls' = calls + 1
    /\ UNCHANGED <<last_dt, exc>>
    /\ UNCHANGED loopvars

CallUpdate ==
    /\ CanCall
    /\ \E d \in DeltaTimes :
          IF update_raises(ship)
          THEN /\ exc' = "ZeroDivisionError"
               /\ op' = "update_raised"
               /\ UNCHANGED <<ship, frame_start, frame_calls, last_dt>>
          ELSE /\ ship' = update(ship, d)
               /\ last_dt' = d
               /\ op' = "update"
               /\ exc' = exc
               /\ IF op = "update"
                  THEN frame_start' = ship /\ frame_calls' = <<>>
                  ELSE UNCHANGED <<frame_start, frame_calls>>
    /\ calls' = calls + 1
    /\ UNCHANGED loopvars

NextShip == CallApplyForce \/ CallApplyTorque \/ CallUpdate

SpecShip == InitShip /\ [][NextShip]_vars

(***************************************************************************)
(* Properties of the Spaceship, checked under SpecShip.                    *)
(***************************************************************************)
\* the step just taken is an update call that returned
UpdateStep == op' = "update" /\ calls' = calls + 1
\* the step just taken is an apply_force or apply_torque call
ApplyStep == op' \in {"apply_force", "apply_torque"} /\ calls' = calls + 1

\* C1: after every update call both accumulators are exactly zero, so an update
\* that follows another update without a call in between sees no force or
\* torque: it changes neither the velocity nor the angular velocity.
C1_AccumulatorsReset ==
    /\ [](op = "update" => ship.total_force = Zero3 /\ ship.total_torque = Zero3)
    /\ [][(op = "update" /\ UpdateStep) =>
             /\ ship'.velocity = ship.velocity
             /\ ship'.angular_velocity = ship.angular_velocity]_vars

\* C1 witness: an update has returned after both a force and a torque were applied
C1_Witness ==
    /\ op = "update"
    /\ \E i, j \in 1..Len(frame_calls) :
          frame_calls[i][1] = "force" /\ frame_calls[j][1] = "torque"
    /\ ship.total_force = Zero3
    /\ ship.velocity # frame_start.velocity

\* the state Scenario A starts from: mass 1000 at rest at the origin, with
\* exactly one apply_force((1000,0,0)) accumulated
ScenarioA(s) ==
    /\ s.mass = 1000
    /\ s.velocity = Zero3
    /\ s.position = Zero3
    /\ s.total_force = <<1000, 0, 0>>

\* C2: update is semi-implicit Euler: the velocity grows by (total_force/mass)*dt
\* and the position then grows by the NEW velocity*dt; from Scenario A,
\* update(1) gives velocity (1,0,0) and position (1,0,0).
C2_SemiImplicitEuler ==
    [][UpdateStep =>
        /\ ship'.velocity =
               add_vectors(ship.velocity,
                           scale_vector(scale_inverse(ship.total_force, ship.mass), last_dt'))
        /\ ship'.position =
               add_vectors(ship.position, scale_vector(ship'.velocity, last_dt'))
        /\ (ScenarioA(ship) /\ last_dt' = 1 =>
               ship'.velocity = <<1, 0, 0>> /\ ship'.position = <<1, 0, 0>>)]_vars

\* C2 witness: Scenario A has been run
C2_Witness ==
    /\ op = "update"
    /\ calls = 2
    /\ frame_calls = << <<"force", <<1000, 0, 0>> >> >>
    /\ frame_start.mass = 1000
    /\ frame_start.velocity = Zero3
    /\ frame_start.position = Zero3
    /\ last_dt = 1
    /\ ship.velocity = <<1, 0, 0>>
    /\ ship.position = <<1, 0, 0>>

ZeroAccumulators(s) == s.total_force = Zero3 /\ s.total_torque = Zero3

\* C3 as stated: update with zero accumulated force and torque leaves velocity,
\* angular velocity and orientation unchanged; only the position changes, by
\* velocity*dt.
C3_ZeroInputAsStated ==
    [][(UpdateStep /\ ZeroAccumulators(ship)) =>
        /\ ship'.velocity = ship.velocity
        /\ ship'.angular_velocity = ship.angular_velocity
        /\ ship'.orientation = ship.orientation
        /\ ship'.position =
               add_vectors(ship.position, scale_vector(ship.velocity, last_dt'))]_vars

\* C3 amended: update with zero accumulated force and torque leaves velocity and
\* angular velocity unchanged and moves the position by velocity*dt; the
\* orientation advances by angular_velocity*dt, so it is unchanged only when
\* angular_velocity*dt is zero.
C3_ZeroInput ==
    [][(UpdateStep /\ ZeroAccumulators(ship)) =>
        /\ ship'.velocity = ship.velocity
        /\ ship'.angular_velocity = ship.angular_velocity
        /\ ship'.position =
               add_vectors(ship.position, scale_vector(ship.velocity, last_dt'))
        /\ ship'.orientation =
               add_vectors(ship.orientation,
                           scale_vector(ship.angular_velocity, last_dt'))
        /\ (ship'.orientation = ship.orientation <=>
               scale_vector(ship.angular_velocity, last_dt') = Zero3)]_vars

\* C3 witness: a spinning ship was updated with nothing accumulated
C3_Witness ==
    /\ op = "update"
    /\ frame_calls = <<>>
    /\ ZeroAccumulators(frame_start)
    /\ frame_start.angular_velocity # Zero3
    /\ last_dt > 0
    /\ ship.angular_velocity = frame_start.angular_velocity
    /\ ship.orientation # frame_start.orientation

\* one recorded call, made on ship s
ApplyCall(s, call) ==
    IF call[1] = "force" THEN apply_force(s, call[2]) ELSE apply_torque(s, call[2])

RECURSIVE ApplyCalls(_, _)
\* the recorded calls, made in order on ship s
ApplyCalls(s, cs) ==
    IF cs = <<>> THEN s ELSE ApplyCalls(ApplyCall(s, Head(cs)), Tail(cs))

\* the recorded calls of the frame in the order given by permutation p
Reordered(p) == [i \in 1..Len(frame_calls) |-> frame_calls[p[i]]]

\* C4: apply_force and apply_torque only add their argument to their
\* accumulator and leave position, velocity, orientation and angular velocity
\* unchanged; the state after the next update is the same for every order of
\* the frame's calls.
C4_DeferredEffect ==
    /\ [][ApplyStep =>
           /\ ship'.position = ship.position
           /\ ship'.velocity = ship.velocity
           /\ ship'.orientation = ship.orientation
           /\ ship'.angular_velocity = ship.angular_velocity
           /\ LET call == frame_calls'[Len(frame_calls')]
              IN IF call[1] = "force"
                 THEN /\ ship'.total_force = add_vectors(ship.total_force, call[2])
                      /\ ship'.total_torque = ship.total_torque
                 ELSE /\ ship'.total_torque = add_vectors(ship.total_torque, call[2])
                      /\ ship'.total_force = ship.total_force]_vars
    /\ [](op = "update" =>
            \A p \in Permutations(1..Len(frame_calls)) :
               ship = update(ApplyCalls(frame_start, Reordered(p)), last_dt))

\* C4 witness: an update has returned after three calls, not all alike
C4_Witness ==
    /\ op = "update"
    /\ Len(frame_calls) = 3
    /\ frame_calls[1] # frame_calls[2]
    /\ frame_calls[1][1] = "force"
    /\ frame_calls[3][1] = "force"
    /\ ship.position # frame_start.position

(***************************************************************************)
(* Quaternion helpers (utils.py).                                          *)
(***************************************************************************)
\* q_conjugate
q_conjugate(q) == <<q[1], -q[2], -q[3], -q[4]>>

\* variant: a sign slip in the y component (+ x1*z2 for - x1*z2)
q_multiply_sign_slip(q1, q2) ==
    <<q1[1] * q2[1] - q1[2] * q2[2] - q1[3] * q2[3] - q1[4] * q2[4],
      q1[1] * q2[2] + q1[2] * q2[1] + q1[3] * q2[4] - q1[4] * q2[3],
      q1[1] * q2[3] + q1[2] * q2[4] + q1[3] * q2[1] + q1[4] * q2[2],
      q1[1] * q2[4] + q1[2] * q2[3] - q1[3] * q2[2] + q1[4] * q2[1]>>

\* q_multiply
q_multiply(q1, q2) ==
    <<q1[1] * q2[1] - q1[2] * q2[2] - q1[3] * q2[3] - q1[4] * q2[4],
      q1[1] * q2[2] + q1[2] * q2[1] + q1[3] * q2[4] - q1[4] * q2[3],
      q1[1] * q2[3] - q1[2] * q2[4] + q1[3] * q2[1] + q1[4] * q2[2],
      q1[1] * q2[4] + q1[2] * q2[3] - q1[3] * q2[2] + q1[4] * q2[1]>>

\* qv_rotate
qv_rotate(q, v) ==
    LET v_quat == <<0, v[1], v[2], v[3]>>
        rotated_v_quat == q_multiply(q_multiply(q, v_quat), q_conjugate(q))
    IN <<rotated_v_quat[2], rotated_v_quat[3], rotated_v_quat[4]>>

\* variant: the whole angle is used where the half angle belongs
q_from_axis_angle_whole_angle(axis, half_turns) ==
    LET unit == scale_inverse(axis, norm(axis))
        w == cos_quarter_turns(2 * half_turns)
        xyz == scale_vector(unit, sin_quarter_turns(2 * half_turns))
    IN <<w, xyz[1], xyz[2], xyz[3]>>

\* q_from_axis_angle(axis, angle) for angle = half_turns * pi, so that
\* half_angle is half_turns quarter turns
q_from_axis_angle(axis, half_turns) ==
    LET unit == scale_inverse(axis, norm(axis))
        half_angle == half_turns
        w == cos_quarter_turns(half_angle)
        xyz == scale_vector(unit, sin_quarter_turns(half_angle))
    IN <<w, xyz[1], xyz[2], xyz[3]>>

(***************************************************************************)
(* The game (main.py, game_objects.py, renderer.py).                       *)
(***************************************************************************)
\* the methods class Spaceship defines; a call of any other name raises
\* AttributeError
Spaceship_methods == {"__init__", "__repr__", "apply_force", "apply_torque", "update"}

\* the parameters of Spaceship.apply_force besides self; a call with any other
\* keyword raises TypeError
apply_force_parameters == {"force"}

\* Gate.__init__
Gate(position, orientation, size) ==
    [position |-> position, orientation |-> orientation, size |-> size,
     is_passed |-> FALSE]

\* _CUBE_EDGES and _TETRA_EDGES
CUBE_EDGES ==
    << <<0, 1>>, <<1, 2>>, <<2, 3>>, <<3, 0>>, <<4, 5>>, <<5, 6>>, <<6, 7>>, <<7, 4>>,
       <<0, 4>>, <<1, 5>>, <<2, 6>>, <<3, 7>> >>
TETRA_EDGES == << <<0, 1>>, <<0, 2>>, <<0, 3>>, <<1, 2>>, <<1, 3>>, <<2, 3>> >>

\* ASTEROID_MODELS.  A vertex array is known by its name: the jagged one is
\* drawn from a seeded random generator when the module is imported.
ASTEROID_MODELS ==
    [asteroid_cube_simple |-> <<"_CUBE_VERTICES", CUBE_EDGES>>,
     asteroid_tetrahedron |-> <<"_TETRA_VERTICES", TETRA_EDGES>>,
     asteroid_jagged_1 |-> <<"_JAGGED_VERTICES", CUBE_EDGES>>]

\* ASTEROID_MODELS.get(model_id, ASTEROID_MODELS["asteroid_cube_simple"])
models_get(model_id) ==
    IF model_id \in DOMAIN ASTEROID_MODELS
    THEN ASTEROID_MODELS[model_id]
    ELSE ASTEROID_MODELS["asteroid_cube_simple"]

\* Python's None where a model id is expected
NoneId == "None"

\* base_vertices * size: the named array scaled by the factor
scaled(base_vertices, size) == [base |-> base_vertices, factor |-> size]

\* An Asteroid object is the record of its attributes that are not None.
\* Asteroid.set_size raises TypeError when base_vertices is None
set_size_raises(self) == "base_vertices" \notin DOMAIN self

\* Asteroid.set_size, when it returns
set_size(self, new_size) ==
    [size |-> new_size, vertices |-> scaled(self.base_vertices, new_size)] @@ self

\* Asteroid.set_model
set_model(self, new_model_id) ==
    LET current == IF "model_id" \in DOMAIN self THEN self.model_id ELSE NoneId
        found == models_get(new_model_id)
        changed == [model_id |-> new_model_id, base_vertices |-> found[1],
                    edges |-> found[2]] @@ self
    IN IF new_model_id = current THEN self
       ELSE IF "size" \in DOMAIN changed THEN set_size(changed, changed.size)
       ELSE changed

\* Asteroid.__init__ up to the call of set_size
Asteroid_before_size(position, orientation, angular_velocity, model_id) ==
    set_model([position |-> position, orientation |-> orientation,
               angular_velocity |-> angular_velocity], model_id)

\* Asteroid.__init__ raises TypeError
Asteroid_raises(model_id) ==
    set_size_raises(Asteroid_before_size(Zero3, <<1, 0, 0, 0>>, Zero3, model_id))

\* Asteroid.__init__, when it returns
Asteroid(position, size, orientation, angular_velocity, model_id) ==
    set_size(Asteroid_before_size(position, orientation, angular_velocity, model_id),
             size)

\* Camera.__init__
Camera == [position |-> <<0, 0, -50>>, target |-> Zero3, up |-> <<0, 1, 0>>]

\* squared length of v1 - v2
dist_squared(v1, v2) ==
    (v1[1] - v2[1]) * (v1[1] - v2[1]) + (v1[2] - v2[2]) * (v1[2] - v2[2])
        + (v1[3] - v2[3]) * (v1[3] - v2[3])

\* variant: a ship exactly at distance size counts as inside
gate_reached_inclusive(s, gate) ==
    gate.size >= 0 /\ dist_squared(s.position, gate.position) <= gate.size * gate.size

\* np.linalg.norm(ship.position - target_gate.position) < target_gate.size
gate_reached(s, gate) ==
    gate.size > 0 /\ dist_squared(s.position, gate.position) < gate.size * gate.size

\* variant: the asteroid's size is taken for its radius
asteroid_hit_full_size(s, asteroid, ship_radius) ==
    /\ asteroid.size + ship_radius > 0
    /\ dist_squared(s.position, asteroid.position)
         < (asteroid.size + ship_radius) * (asteroid.size + ship_radius)

\* np.linalg.norm(ship.position - asteroid.position) < asteroid.size / 2 + ship_radius,
\* both sides doubled
asteroid_hit(s, asteroid, ship_radius) ==
    /\ asteroid.size + 2 * ship_radius > 0
    /\ 4 * dist_squared(s.position, asteroid.position)
         < (asteroid.size + 2 * ship_radius) * (asteroid.size + 2 * ship_radius)

\* variant: every gate is flagged
mark_passed_all(gates, i) ==
    [j \in 1..Len(gates) |-> [gates[j] EXCEPT !.is_passed = TRUE]]

\* target_gate.is_passed = True, for the gate at list index i (0-based)
mark_passed(gates, i) ==
    [gates EXCEPT ![i + 1].is_passed = TRUE]

\* variant: the velocity survives the reset
reset_ship_keep_velocity(s, cfg) ==
    [s EXCEPT !.position = cfg.starting_vector,
              !.orientation = <<1, 0, 0, 0>>,
              !.angular_velocity = Zero3]

\* reset_game_state: the ship it leaves
reset_ship(s, cfg) ==
    [s EXCEPT !.position = cfg.starting_vector,
              !.velocity = Zero3,
              !.orientation = <<1, 0, 0, 0>>,
              !.angular_velocity = Zero3]

\* reset_game_state: the gates it leaves
reset_gates(gates) ==
    [j \in 1..Len(gates) |-> [gates[j] EXCEPT !.is_passed = FALSE]]

\* reset_game_state, on the state g of the game; returns 0, False
reset_game_state(g, cfg) ==
    [g EXCEPT !.ship = reset_ship(g.ship, cfg),
              !.scene_gates = reset_gates(g.scene_gates),
              !.current_gate_index = 0,
              !.game_over = FALSE]

\* the body of the event loop for one event
handle_event(g, event, cfg) ==
    CASE event = "QUIT" -> [g EXCEPT !.running = FALSE]
      [] event = "K_ESCAPE" -> [g EXCEPT !.running = FALSE]
      [] event = "K_r" -> reset_game_state(g, cfg)
      [] OTHER -> g

RECURSIVE handle_events(_, _, _)
\* for event in pygame.event.get(): ...
handle_events(g, events, cfg) ==
    IF events = <<>> THEN g
    ELSE handle_events(handle_event(g, Head(events), cfg), Tail(events), cfg)

\* steer_torque_strength = main_thrust * 0.05
steer_torque_strength(cfg) == cfg.max_forward_thruster \div 20

\* the torque of each steering key, in the order main() tests the keys
key_torques(cfg) ==
    LET st == steer_torque_strength(cfg)
    IN << <<"K_d", <<0, -st, 0>> >>,
          <<"K_a", <<0, st, 0>> >>,
          <<"K_e", <<0, 0, -(st \div 2)>> >>,
          <<"K_q", <<0, 0, st \div 2>> >>,
          <<"K_UP", <<-st, 0, 0>> >>,
          <<"K_DOWN", <<st, 0, 0>> >> >>

RECURSIVE apply_key_torques(_, _, _)
\* if keys[k]: ship.apply_torque(t), for each steering key in turn
apply_key_torques(s, pressed, table) ==
    IF table = <<>> THEN s
    ELSE apply_key_torques(
             IF Head(table)[1] \in pressed THEN apply_torque(s, Head(table)[2]) ELSE s,
             pressed, Tail(table))

\* the joystick's yaw, pitch and roll torques (an axis at rest is inside the deadzone)
apply_axis_torques(s, ax, cfg) ==
    LET st == steer_torque_strength(cfg)
        s1 == IF ax.yaw # 0 THEN apply_torque(s, <<0, -ax.yaw * st, 0>>) ELSE s
        pitch_val == IF cfg.invert_pitch THEN -ax.pitch ELSE ax.pitch
        s2 == IF ax.pitch # 0 THEN apply_torque(s1, <<pitch_val * st, 0, 0>>) ELSE s1
    IN IF ax.roll # 0 THEN apply_torque(s2, <<0, 0, -ax.roll * (st \div 2)>>) ELSE s2

(***************************************************************************)
(* Spec: main(), from the start of the first frame.                        *)
(***************************************************************************)
\* Starting_vector settings
StartingVectors == {Zero3, <<0, 0, 999>>, <<0, 0, 200>>, <<0, 0, 85>>, <<0, 0, 215>>}
\* Ship_weight settings; 0 is what an unparsable value yields
ShipWeights == {0, 1000}
\* gates and asteroids of the course file
GateChoices == {Gate(<<0, 0, 1000>>, <<1, 0, 0, 0>>, 800),
                Gate(Zero3, <<0, 0, 1, 0>>, 30)}
AsteroidChoices ==
    {Asteroid(<<0, 0, 100>>, 200, <<1, 0, 0, 0>>, Zero3, "asteroid_cube_simple"),
     Asteroid(<<0, 66, 0>>, 101, <<1, 0, 0, 0>>, <<0, 1, 0>>, "asteroid_jagged_1")}
\* the events one frame can receive
EventKinds == {"QUIT", "K_ESCAPE", "K_r", "MOUSEMOTION"}
\* the sets of keys held down in a frame: every key main() tests occurs
KeySets == {{}, {"K_w"}, {"K_s", "K_d"}, {"K_d"}, {"K_a", "K_q"}, {"K_e", "K_UP"},
            {"K_DOWN", "K_d", "K_q"}}
\* joystick readings: each axis hard over either way (-1, 1) or at rest (0)
AxisReadings ==
    {NoAxes,
     [yaw |-> 1, pitch |-> 0, roll |-> -1, thrust |-> 0],
     [yaw |-> 0, pitch |-> -1, roll |-> 0, thrust |-> 1],
     [yaw |-> -1, pitch |-> 1, roll |-> 1, thrust |-> -1],
     [yaw |-> 0, pitch |-> 0, roll |-> 0, thrust |-> -1]}
\* frame times: clock.tick(60) / 1000.0
FrameTimes == {1, 2}

SeqsUpTo(S, n) == UNION {[1..k -> S] : k \in 0..n}

\* main(), lines 71-113: configuration, course, ship, camera, first reset
Init ==
    /\ \E sv \in StartingVectors, w \in ShipWeights :
          settings = [starting_vector |-> sv, ship_weight |-> w,
                      max_forward_thruster |-> 40000, invert_pitch |-> TRUE]
    /\ joystick \in BOOLEAN
    /\ scene_gates \in SeqsUpTo(GateChoices, MaxGates)
    /\ scene_asteroids \in SeqsUpTo(AsteroidChoices, MaxAsteroids)
    /\ ship = reset_ship(Spaceship(settings.starting_vector, Zero3, Zero3,
                                   settings.ship_weight), settings)
    /\ camera = Camera
    /\ current_gate_index = 0
    /\ game_over = FALSE
    /\ running = TRUE
    /\ dt = 0
    /\ keys = {}
    /\ axes = NoAxes
    /\ pc = "events"
    /\ exc = "none"
    /\ op = "init"
    /\ calls = 0
    /\ frame_start = ship
    /\ frame_calls = <<>>
    /\ last_dt = 0
    /\ IdleExtras

harness == <<op, calls, frame_start, frame_calls, last_dt,
             course_file, selected_object, scene, screen, projected, quat>>

\* lines 119-126: the event loop
HandleEvents ==
    /\ pc = "events"
    /\ exc = "none"
    /\ \E events \in SeqsUpTo(EventKinds, MaxEvents) :
          LET g == handle_events([ship |-> ship, scene_gates |-> scene_gates,
                                  current_gate_index |-> current_gate_index,
                                  game_over |-> game_over, running |-> running],
                                 events, settings)
          IN /\ ship' = g.ship
             /\ scene_gates' = g.scene_gates
             /\ current_gate_index' = g.current_gate_index
             /\ game_over' = g.game_over
             /\ running' = g.running
    /\ pc' = "tick"
    /\ UNCHANGED <<settings, joystick, scene_asteroids, camera, dt, keys, axes, exc>>
    /\ UNCHANGED harness

\* lines 128-131: dt = clock.tick(60) / 1000.0; if not game_over
Tick ==
    /\ pc = "tick"
    /\ dt' \in FrameTimes
    /\ pc' = IF game_over THEN "camera" ELSE "keys"
    /\ UNCHANGED <<ship, settings, joystick, scene_gates, scene_asteroids, camera,
                   current_gate_index, game_over, running, keys, axes, exc>>
    /\ UNCHANGED harness

\* lines 133-144: keyboard input
KeyboardInput ==
    /\ pc = "keys"
    /\ keys' \in KeySets
    /\ IF /\ (keys' \cap {"K_w", "K_s"}) # {}
          /\ "local_space" \notin apply_force_parameters
       THEN \* ship.apply_force(..., local_space=True) raises before any torque
            /\ exc' = "TypeError"
            /\ pc' = "aborted"
            /\ ship' = ship
       ELSE /\ exc' = exc
            /\ pc' = "joystick"
            /\ ship' = apply_key_torques(ship, keys', key_torques(settings))
    /\ UNCHANGED <<settings, joystick, scene_gates, scene_asteroids, camera,
                   current_gate_index, game_over, running, dt, axes>>
    /\ UNCHANGED harness

\* lines 147-160: joystick input
JoystickInput ==
    /\ pc = "joystick"
    /\ IF joystick
       THEN /\ axes' \in AxisReadings
            /\ ship' = apply_axis_torques(ship, axes', settings)
            /\ IF -axes'.thrust > 0 /\ "local_space" \notin apply_force_parameters
               THEN exc' = "TypeError" /\ pc' = "aborted"
               ELSE exc' = exc /\ pc' = "update"
       ELSE /\ pc' = "update"
            /\ UNCHANGED <<ship, axes, exc>>
    /\ UNCHANGED <<settings, joystick, scene_gates, scene_asteroids, camera,
                   current_gate_index, game_over, running, dt, keys>>
    /\ UNCHANGED harness

\* line 162: ship.update(dt)
ShipUpdate ==
    /\ pc = "update"
    /\ IF update_raises(ship)
       THEN /\ exc' = "ZeroDivisionError"
            /\ pc' = "aborted"
            /\ ship' = ship
       ELSE /\ exc' = exc
            /\ pc' = "gate"
            /\ ship' = update(ship, dt)
    /\ UNCHANGED <<settings, joystick, scene_gates, scene_asteroids, camera,
                   current_gate_index, game_over, running, dt, keys, axes>>
    /\ UNCHANGED harness

\* lines 164-169: the gate-pass check
GateCheck ==
    /\ pc = "gate"
    /\ IF /\ current_gate_index < Len(scene_gates)
          /\ gate_reached(ship, scene_gates[current_gate_index + 1])
       THEN /\ scene_gates' = mark_passed(scene_gates, current_gate_index)
            /\ current_gate_index' = current_gate_index + 1
       ELSE UNCHANGED <<scene_gates, current_gate_index>>
    /\ pc' = "asteroids"
    /\ UNCHANGED <<ship, settings, joystick, scene_asteroids, camera, game_over,
                   running, dt, keys, axes, exc>>
    /\ UNCHANGED harness

\* lines 171-176: the asteroid collision check
AsteroidCheck ==
    /\ pc = "asteroids"
    /\ LET ship_radius == 15
       IN game_over' =
            IF \E k \in 1..Len(scene_asteroids) :
                  asteroid_hit(ship, scene_asteroids[k], ship_radius)
            THEN TRUE ELSE game_over
    /\ pc' = "camera"
    /\ UNCHANGED <<ship, settings, joystick, scene_gates, scene_asteroids, camera,
                   current_gate_index, running, dt, keys, axes, exc>>
    /\ UNCHANGED harness

\* line 178: camera.update(ship).  Camera.update assigns the target and then
\* calls ship.get_forward_vector()
CameraUpdate ==
    /\ pc = "camera"
    /\ "get_forward_vector" \notin Spaceship_methods
    /\ camera' = [camera EXCEPT !.target = ship.position]
    /\ exc' = "AttributeError"
    /\ pc' = "aborted"
    /\ UNCHANGED <<ship, settings, joystick, scene_gates, scene_asteroids,
                   current_gate_index, game_over, running, dt, keys, axes>>
    /\ UNCHANGED harness

Next ==
    \/ HandleEvents
    \/ Tick
    \/ KeyboardInput
    \/ JoystickInput
    \/ ShipUpdate
    \/ GateCheck
    \/ AsteroidCheck
    \/ CameraUpdate

Spec == Init /\ [][Next]_vars

(***************************************************************************)
(* Properties of the game loop, checked under Spec.                        *)
(***************************************************************************)
\* the steps of a frame, as transitions
KeyboardStep == pc = "keys" /\ pc' # "keys"
GateStep == pc = "gate" /\ pc' = "asteroids"
AsteroidStep == pc = "asteroids" /\ pc' = "camera"
CameraStep == pc = "camera" /\ pc' # "camera"
\* the only step that can run reset_game_state or clear running
EventStep == pc = "events" /\ pc' # "events"

\* C5: the game loop's forward-thrust call apply_force((0,0,main_thrust),
\* local_space=True) is accepted by the Spaceship, and the force, rotated by
\* the ship's orientation into world space, is added to the accumulator.
C5_LocalThrustAccepted ==
    [][(KeyboardStep /\ "K_w" \in keys') =>
          /\ exc' = "none"
          /\ ship'.total_force =
                add_vectors(ship.total_force,
                            qv_rotate(ship.orientation,
                                      <<0, 0, settings.max_forward_thruster>>))]_vars

\* C6: the Spaceship offers the forward/up/right vector queries, and
\* Camera.update(ship) calls them in a frame without error.
C6_AxisQueries ==
    [][CameraStep =>
          /\ {"get_forward_vector", "get_up_vector", "get_right_vector"}
                \subseteq Spaceship_methods
          /\ exc' = "none"]_vars

\* C7: in the gate-pass step, with the game not over and a target gate left,
\* the target gate is marked passed and the index advances by one if and only
\* if the ship is at a distance strictly less than the gate's size from it;
\* otherwise nothing changes; no other gate changes, and the index never
\* advances by more than one.
C7_GatePass ==
    [][GateStep =>
          LET i == current_gate_index
          IN /\ current_gate_index' \in {i, i + 1}
             /\ Len(scene_gates') = Len(scene_gates)
             /\ \A j \in 1..Len(scene_gates) :
                   /\ scene_gates'[j].position = scene_gates[j].position
                   /\ scene_gates'[j].size = scene_gates[j].size
                   /\ j # i + 1 => scene_gates'[j] = scene_gates[j]
             /\ IF ~game_over /\ i < Len(scene_gates)
                THEN LET g == scene_gates[i + 1]
                         dx == ship.position[1] - g.position[1]
                         dy == ship.position[2] - g.position[2]
                         dz == ship.position[3] - g.position[3]
                         near == g.size > 0 /\ dx * dx + dy * dy + dz * dz < g.size * g.size
                     IN IF near
                        THEN scene_gates'[i + 1].is_passed /\ current_gate_index' = i + 1
                        ELSE scene_gates' = scene_gates /\ current_gate_index' = i
                ELSE scene_gates' = scene_gates /\ current_gate_index' = i]_vars

\* C7 witness: Scenario B, gate at (0,0,1000) of size 800 passed from (0,0,999)
C7_Witness ==
    /\ pc = "asteroids"
    /\ ship.position = <<0, 0, 999>>
    /\ Len(scene_gates) = 2
    /\ scene_gates[1].position = <<0, 0, 1000>>
    /\ scene_gates[1].size = 800
    /\ scene_gates[1].is_passed
    /\ current_gate_index = 1

\* C8: in every reachable state 0 <= current_gate_index <= number of gates and
\* the gates with is_passed are exactly those of list index < current_gate_index.
C8_PassedPrefix ==
    /\ current_gate_index \in 0..Len(scene_gates)
    /\ \A j \in 1..Len(scene_gates) :
          scene_gates[j].is_passed <=> j <= current_gate_index

\* C8 witness: the first of two gates is passed, the second is not
C8_Witness ==
    /\ Len(scene_gates) = 2
    /\ current_gate_index = 1
    /\ scene_gates[1].is_passed
    /\ ~scene_gates[2].is_passed
    /\ pc = "aborted"

\* C9: in the asteroid step game_over becomes true if and only if some asteroid
\* is at a distance strictly less than size/2 + 15 from the ship; with no such
\* asteroid, and with no asteroids at all, it stays false.
C9_AsteroidCollision ==
    [][(AsteroidStep /\ ~game_over) =>
          (game_over' <=>
              \E k \in 1..Len(scene_asteroids) :
                 LET a == scene_asteroids[k]
                     dx == ship.position[1] - a.position[1]
                     dy == ship.position[2] - a.position[2]
                     dz == ship.position[3] - a.position[3]
                 IN /\ a.size + 30 > 0
                    /\ 4 * (dx * dx + dy * dy + dz * dz) < (a.size + 30) * (a.size + 30))]_vars

\* C9 witness: Scenario C, asteroid at (0,0,100) of size 200 hit from (0,0,85)
C9_Witness ==
    /\ pc = "camera"
    /\ game_over
    /\ ship.position = <<0, 0, 85>>
    /\ Len(scene_asteroids) = 1
    /\ scene_asteroids[1].position = <<0, 0, 100>>
    /\ scene_asteroids[1].size = 200

\* C10: the crashed state is terminal: once game_over is true, every step
\* other than the event handling (reset or quit) applies no input, does not
\* move the ship, changes no gate and no index, keeps game_over true, and the
\* loop goes on to its next frame rather than ending.
C10_CrashedTerminal ==
    [][(game_over /\ ~EventStep) =>
          /\ game_over'
          /\ ship' = ship
          /\ scene_gates' = scene_gates
          /\ current_gate_index' = current_gate_index
          /\ exc' = "none"]_vars

(***************************************************************************)
(* Course files (game_objects.py load_course_from_file, main.py start-up). *)
(* A file has a status: "missing", "malformed" (not JSON) or "json", and   *)
(* for "json" the decoded lists race_gates and asteroids; a record of      *)
(* these lists is a function from its keys, so a key can be absent.        *)
(***************************************************************************)
\* variant: the records are taken in file order
file_order(records) == records

RECURSIVE insert_by_gate_number(_, _)
\* r placed after every record whose gate_number is not greater
insert_by_gate_number(sorted, r) ==
    IF sorted = <<>> THEN <<r>>
    ELSE IF Head(sorted)["gate_number"] <= r["gate_number"]
         THEN <<Head(sorted)>> \o insert_by_gate_number(Tail(sorted), r)
         ELSE <<r>> \o sorted

RECURSIVE sort_from(_, _)
sort_from(sorted, records) ==
    IF records = <<>> THEN sorted
    ELSE sort_from(insert_by_gate_number(sorted, Head(records)), Tail(records))

\* sorted(records, key=lambda x: x['gate_number']): a stable sort
sorted_by_gate_number(records) == sort_from(<<>>, records)

\* the keys load_course_from_file subscripts in a gate and an asteroid record
GateKeys == {"gate_number", "position", "orientation", "size"}
AsteroidKeys == {"position", "size", "orientation", "angular_velocity", "model_id"}

\* some subscript of the load raises KeyError
load_key_error(data) ==
    \/ \E i \in 1..Len(data.race_gates) : ~(GateKeys \subseteq DOMAIN data.race_gates[i])
    \/ \E i \in 1..Len(data.asteroids) : ~(AsteroidKeys \subseteq DOMAIN data.asteroids[i])

\* load_course_from_file: the exception it raises, or "none"
load_raises(file) ==
    CASE file.status = "missing" -> "FileNotFoundError"
      [] file.status = "malformed" -> "JSONDecodeError"
      [] OTHER -> IF load_key_error(file) THEN "KeyError" ELSE "none"

\* load_course_from_file: the dictionary it returns
load_course_from_file(data) ==
    LET g_data == sorted_by_gate_number(data.race_gates)
    IN [gates |-> [i \in 1..Len(g_data) |->
                      Gate(g_data[i]["position"], g_data[i]["orientation"],
                           g_data[i]["size"])],
        asteroids |-> [i \in 1..Len(data.asteroids) |->
                      LET a_data == data.asteroids[i]
                      IN Asteroid(a_data["position"], a_data["size"],
                                  a_data["orientation"], a_data["angular_velocity"],
                                  a_data["model_id"])]]

(***************************************************************************)
(* SpecLoad: the start-up of main() on any course file.                    *)
(***************************************************************************)
\* the race_gates record numbered n
GateRecord(n) ==
    [gate_number |-> n, position |-> <<0, 0, 1000 * n>>,
     orientation |-> <<1, 0, 0, 0>>, size |-> 800]

\* the asteroid record placed at x
AsteroidRecord(x) ==
    [model_id |-> "asteroid_tetrahedron", position |-> <<x, 0, 0>>,
     orientation |-> <<1, 0, 0, 0>>, size |-> 200, angular_velocity |-> Zero3]

\* record r without key k
Without(r, k) == [f \in DOMAIN r \ {k} |-> r[f]]

\* gate lists with distinct numbers, in every order
GateLists ==
    {gl \in SeqsUpTo(1..MaxFileGates, MaxFileGates) :
        \A i, j \in 1..Len(gl) : i # j => gl[i] # gl[j]}

\* the files with every key present
GoodFiles ==
    {[status |-> "json",
      race_gates |-> [i \in 1..Len(gl) |-> GateRecord(gl[i])],
      asteroids |-> [i \in 1..Len(al) |-> AsteroidRecord(al[i])]] :
        gl \in GateLists, al \in SeqsUpTo({500, -500}, 2)}

\* files with one key missing from one record
BadFiles ==
    {[status |-> "json",
      race_gates |-> <<GateRecord(1), Without(GateRecord(2), k)>>,
      asteroids |-> <<AsteroidRecord(500)>>] : k \in GateKeys}
    \cup
    {[status |-> "json",
      race_gates |-> <<GateRecord(1)>>,
      asteroids |-> <<Without(AsteroidRecord(500), k)>>] : k \in AsteroidKeys}

\* no file, and a file that is not JSON
NoFile == [status |-> "missing", race_gates |-> <<>>, asteroids |-> <<>>]
NotJson == [status |-> "malformed", race_gates |-> <<>>, asteroids |-> <<>>]

CourseFiles == {NoFile, NotJson} \cup GoodFiles \cup BadFiles

InitLoad ==
    /\ course_file \in CourseFiles
    /\ scene_gates = <<>>
    /\ scene_asteroids = <<>>
    /\ pc = "load"
    /\ exc = "none"
    /\ IdleGame
    /\ camera = [position |-> <<0, 0, -50>>, target |-> Zero3, up |-> <<0, 1, 0>>]
    /\ ship = Spaceship(Zero3, Zero3, Zero3, 1000)
    /\ op = "init"
    /\ calls = 0
    /\ frame_start = ship
    /\ frame_calls = <<>>
    /\ last_dt = 0
    /\ selected_object = <<>>
    /\ scene = <<>>
    /\ screen = <<>>
    /\ projected = <<>>
    /\ quat = <<>>

\* main(), lines 94-103: try load_course_from_file, except FileNotFoundError
\* and JSONDecodeError
LoadCourse ==
    /\ pc = "load"
    /\ LET raised == load_raises(course_file)
       IN CASE raised = "none" ->
                 /\ scene_gates' = load_course_from_file(course_file).gates
                 /\ scene_asteroids' = load_course_from_file(course_file).asteroids
                 /\ pc' = "loaded"
                 /\ exc' = exc
            [] raised \in {"FileNotFoundError", "JSONDecodeError"} ->
                 /\ pc' = "loaded"
                 /\ UNCHANGED <<scene_gates, scene_asteroids, exc>>
            [] OTHER ->
                 /\ exc' = raised
                 /\ pc' = "aborted"
                 /\ UNCHANGED <<scene_gates, scene_asteroids>>
    /\ UNCHANGED <<ship, op, calls, frame_start, frame_calls, last_dt, settings,
                   joystick, camera, current_gate_index, game_over, running, dt,
                   keys, axes, course_file, selected_object, scene, screen,
                   projected, quat>>

NextLoad == LoadCourse

SpecLoad == InitLoad /\ [][NextLoad]_vars

\* C11: load_course_from_file returns the gates in ascending gate_number order
\* whatever their order in the file (gate numbers distinct): the k-th loaded
\* gate is built from the record with exactly k-1 smaller numbers; the
\* asteroids are in file order.
C11_GatesSortedByNumber ==
    (pc = "loaded" /\ load_raises(course_file) = "none") =>
        LET rg == course_file.race_gates
            fa == course_file.asteroids
        IN /\ Len(scene_gates) = Len(rg)
           /\ \A k \in 1..Len(scene_gates) :
                 \E i \in 1..Len(rg) :
                    /\ Cardinality({j \in 1..Len(rg) :
                                      rg[j].gate_number < rg[i].gate_number}) = k - 1
                    /\ scene_gates[k].position = rg[i].position
                    /\ scene_gates[k].orientation = rg[i].orientation
                    /\ scene_gates[k].size = rg[i].size
           /\ Len(scene_asteroids) = Len(fa)
           /\ \A k \in 1..Len(fa) : scene_asteroids[k].position = fa[k].position

\* C11 witness: Scenario D, gates numbered [2,1,3] in the file are loaded as [1,2,3]
C11_Witness ==
    /\ pc = "loaded"
    /\ course_file.status = "json"
    /\ Len(course_file.race_gates) = 3
    /\ course_file.race_gates[1].gate_number = 2
    /\ course_file.race_gates[2].gate_number = 1
    /\ course_file.race_gates[3].gate_number = 3
    /\ Len(course_file.asteroids) = 2
    /\ Len(scene_gates) = 3
    /\ scene_gates[1].position = <<0, 0, 1000>>
    /\ scene_gates[2].position = <<0, 0, 2000>>
    /\ scene_gates[3].position = <<0, 0, 3000>>

\* C12: every course-load failure (missing file, malformed JSON, a record
\* missing a required key) is recoverable: start-up goes on into the game loop
\* with an empty course and no error propagates.
C12_LoadRecoverable ==
    (pc # "load" /\ load_raises(course_file) # "none") =>
        /\ exc = "none"
        /\ pc = "loaded"
        /\ scene_gates = <<>>
        /\ scene_asteroids = <<>>

\* C13: a Spaceship with mass <= 0 is rejected at construction, so the ship
\* that update is called on has a positive mass and update never divides by a
\* non-positive one; this includes the mass 0 of an unparsable Ship_weight.
C13_InvalidMassRejected ==
    /\ pc = "update" => ship.mass > 0
    /\ exc # "ZeroDivisionError"

\* C14: the ship's orientation has norm 1 after every update of the game loop.
C14_UnitOrientation ==
    pc \in {"gate", "asteroids", "camera", "aborted"} =>
        norm_squared(ship.orientation) = 1

(***************************************************************************)
(* SpecQuat: the quaternion helpers of utils.py on bounded arguments.      *)
(* quat = [args, call, result]: the arguments drawn, the computation made  *)
(* on them and what it returned.                                           *)
(***************************************************************************)
\* quaternions, unit and not
Quaternions ==
    {<<1, 0, 0, 0>>, <<0, 1, 0, 0>>, <<0, 0, 1, 0>>, <<0, 0, 0, 1>>,
     <<1, 1, 0, 0>>, <<1, -1, 1, 0>>, <<2, 0, -1, 3>>, <<0, 0, 0, 0>>}
\* vectors to rotate
Vectors == {<<0, 0, 1>>, <<1, 0, 0>>, <<3, -2, 5>>, <<0, 7, 0>>, Zero3}
\* rotation axes of integer length
Axes == {<<0, 1, 0>>, <<1, 0, 0>>, <<0, 0, -1>>, <<0, 2, 0>>, <<-3, 0, 0>>}
\* rotation angles, in half turns (multiples of pi)
HalfTurns == {0, 1, 2, 3}

InitQuat ==
    /\ quat \in {[args |-> <<"compose", q1, q2, v>>, call |-> "none", result |-> <<>>] :
                    q1 \in Quaternions, q2 \in Quaternions, v \in Vectors}
                \cup
                {[args |-> <<"axis_angle", axis, k, v>>, call |-> "none", result |-> <<>>] :
                    axis \in Axes, k \in HalfTurns, v \in Vectors}
    /\ ship = Spaceship(Zero3, Zero3, Zero3, 1000)
    /\ op = "init"
    /\ calls = 0
    /\ frame_start = ship
    /\ frame_calls = <<>>
    /\ last_dt = 0
    /\ exc = "none"
    /\ IdleGame
    /\ scene_gates = <<>>
    /\ scene_asteroids = <<>>
    /\ camera = [position |-> <<0, 0, -50>>, target |-> Zero3, up |-> <<0, 1, 0>>]
    /\ pc = "harness"
    /\ course_file = NoFile
    /\ selected_object = <<>>
    /\ scene = <<>>
    /\ screen = <<>>
    /\ projected = <<>>

notquat == <<ship, op, calls, frame_start, frame_calls, last_dt, settings, joystick,
             scene_gates, scene_asteroids, camera, current_gate_index, game_over,
             running, dt, keys, axes, pc, exc, course_file, selected_object, scene,
             screen, projected>>

\* v rotated by the product q1*q2, and v rotated by q2 and then by q1
RotateComposed ==
    /\ quat.call = "none"
    /\ quat.args[1] = "compose"
    /\ LET q1 == quat.args[2]
           q2 == quat.args[3]
           v == quat.args[4]
       IN quat' = [quat EXCEPT !.call = "compose",
                               !.result = <<qv_rotate(q_multiply(q1, q2), v),
                                            qv_rotate(q1, qv_rotate(q2, v))>>]
    /\ UNCHANGED notquat

\* v rotated by q_from_axis_angle(axis, angle)
RotateAxisAngle ==
    /\ quat.call = "none"
    /\ quat.args[1] = "axis_angle"
    /\ LET q == q_from_axis_angle(quat.args[2], quat.args[3])
       IN quat' = [quat EXCEPT !.call = "axis_angle",
                               !.result = <<q, qv_rotate(q, quat.args[4])>>]
    /\ UNCHANGED notquat

NextQuat == RotateComposed \/ RotateAxisAngle

SpecQuat == InitQuat /\ [][NextQuat]_vars

\* C18: composition law: qv_rotate(q_multiply(q1,q2), v) equals
\* qv_rotate(q1, qv_rotate(q2, v)) for all q1, q2 and v drawn.
C18_Composition ==
    quat.call = "compose" => quat.result[1] = quat.result[2]

\* C18 witness: two different non-commuting rotations were composed on a
\* vector that they move
C18_Witness ==
    /\ quat.call = "compose"
    /\ quat.args[2] = <<1, 1, 0, 0>>
    /\ quat.args[3] = <<1, -1, 1, 0>>
    /\ quat.args[4] = <<3, -2, 5>>
    /\ quat.result[1] # quat.args[4]
    /\ q_multiply(quat.args[2], quat.args[3]) # q_multiply(quat.args[3], quat.args[2])

\* C19: a half turn about the Y axis flips forward: q_from_axis_angle((0,1,0),
\* pi) is (0,0,1,0) and rotates (0,0,1) to (0,0,-1); for every axis, the half
\* turn quaternion is (0, unit axis) and the rotation keeps the component of v
\* along the axis and negates the components perpendicular to it.
C19_HalfTurn ==
    (quat.call = "axis_angle" /\ quat.args[3] = 1) =>
        LET axis == quat.args[2]
            v == quat.args[4]
            q == quat.result[1]
            r == quat.result[2]
        IN /\ q[1] = 0
           /\ norm_squared(q) = 1
           /\ \A i \in 1..3 :
                 /\ axis[i] # 0 => q[i + 1] * axis[i] > 0 /\ r[i] = v[i]
                 /\ axis[i] = 0 => q[i + 1] = 0 /\ r[i] = -v[i]
           /\ (axis = <<0, 1, 0>> /\ v = <<0, 0, 1>> =>
                 q = <<0, 0, 1, 0>> /\ r = <<0, 0, -1>>)

\* C19 witness: Scenario E
C19_Witness ==
    /\ quat.call = "axis_angle"
    /\ quat.args = <<"axis_angle", <<0, 1, 0>>, 1, <<0, 0, 1>> >>
    /\ quat.result = << <<0, 0, 1, 0>>, <<0, 0, -1>> >>

(***************************************************************************)
(* Renderer (renderer.py).  Lengths of the renderer model are in quarter   *)
(* metres, so that near_plane = 0.5 is the integer 2 and depths between 0  *)
(* and near_plane exist; directions (up, the view basis) are integer unit  *)
(* vectors: the cameras drawn look along a coordinate axis.  None is <<>>. *)
(***************************************************************************)
None == <<>>

\* np.cross
cross(a, b) ==
    <<a[2] * b[3] - a[3] * b[2], a[3] * b[1] - a[1] * b[3], a[1] * b[2] - a[2] * b[1]>>

\* np.dot
dot(a, b) == a[1] * b[1] + a[2] * b[2] + a[3] * b[3]

\* v1 - v2
sub_vectors(v1, v2) == <<v1[1] - v2[1], v1[2] - v2[2], v1[3] - v2[3]>>

\* Camera.__init__(screen_width, screen_height, fov) followed by the
\* assignment of position, target and up (Camera.update, the designer)
RenderCamera(position, target, up) ==
    [width |-> 1280, height |-> 720, fov |-> 90, near_plane |-> 2,
     position |-> position, target |-> target, up |-> up]

\* variant: a zero vector is replaced by the +z direction
normalized_default_axis(v) ==
    IF norm(v) > 0 THEN scale_inverse(v, norm(v)) ELSE <<0, 0, 1>>

\* v / np.linalg.norm(v) if the norm is positive, else v
normalized(v) == IF norm(v) > 0 THEN scale_inverse(v, norm(v)) ELSE v

\* project_point steps 1-2: the point in camera space, (x, y, depth)
camera_space(cam, point_3d) ==
    LET forward == normalized(sub_vectors(cam.target, cam.position))
        right == normalized(cross(forward, cam.up))
        camera_up == cross(right, forward)
        p_camera == sub_vectors(point_3d, cam.position)
    IN <<dot(p_camera, right), dot(p_camera, camera_up), dot(p_camera, forward)>>

\* np.tan(np.deg2rad(fov) / 2)
tan_half_fov(fov) == CASE fov = 90 -> 1

\* int(a / b) for b > 0: truncation toward zero
int_quotient(a, b) == IF a >= 0 THEN a \div b ELSE -((-a) \div b)

\* project_point steps 4-5, for a point (x, y, depth) of camera space:
\* x_screen = (x / (tan * depth) + 1) * 0.5 * width,
\* y_screen = (1 - (y / (tan * depth) + 1) * 0.5) * height
screen_point(cam, p) ==
    LET t == tan_half_fov(cam.fov)
    IN <<int_quotient((p[1] + t * p[3]) * cam.width, 2 * t * p[3]),
         int_quotient((t * p[3] - p[2]) * cam.height, 2 * t * p[3])>>

\* variant: only points behind the camera are clipped
project_point_clip_behind(cam, point_3d) ==
    LET p == camera_space(cam, point_3d)
    IN IF p[3] <= 0 THEN None ELSE screen_point(cam, p)

\* variant: a point at exactly near_plane is clipped too
project_point_clip_inclusive(cam, point_3d) ==
    LET p == camera_space(cam, point_3d)
    IN IF p[3] <= cam.near_plane THEN None ELSE screen_point(cam, p)

\* Camera.project_point
project_point(cam, point_3d) ==
    LET p == camera_space(cam, point_3d)
    IN IF p[3] < cam.near_plane THEN None ELSE screen_point(cam, p)

\* draw_wireframe_object: world_vertices
world_vertices(obj) ==
    [k \in 1..Len(obj.vertices) |->
        add_vectors(qv_rotate(obj.orientation, obj.vertices[k]), obj.position)]

\* draw_wireframe_object: screen_points
screen_points(cam, obj) ==
    [k \in 1..Len(obj.vertices) |-> project_point(cam, world_vertices(obj)[k])]

RECURSIVE draw_lines_either(_, _, _)
\* variant: an edge is drawn when either endpoint is visible
draw_lines_either(surface, points, edges) ==
    IF edges = <<>> THEN surface
    ELSE LET p1 == points[Head(edges)[1] + 1]
             p2 == points[Head(edges)[2] + 1]
         IN draw_lines_either(
                IF p1 # None \/ p2 # None THEN Append(surface, <<p1, p2>>) ELSE surface,
                points, Tail(edges))

RECURSIVE draw_lines(_, _, _)
\* draw_wireframe_object: the loop over the edges; pygame.draw.line appends
\* the line to the surface
draw_lines(surface, points, edges) ==
    IF edges = <<>> THEN surface
    ELSE LET p1 == points[Head(edges)[1] + 1]
             p2 == points[Head(edges)[2] + 1]
         IN draw_lines(
                IF p1 # None /\ p2 # None THEN Append(surface, <<p1, p2>>) ELSE surface,
                points, Tail(edges))

\* SHIP_VERTICES and SHIP_EDGES
SHIP_VERTICES ==
    << <<0, 0, 80>>, <<-30, 20, -80>>, <<30, 20, -80>>, <<30, -20, -80>>,
       <<-30, -20, -80>> >>
SHIP_EDGES ==
    << <<0, 1>>, <<0, 2>>, <<0, 3>>, <<0, 4>>, <<1, 2>>, <<2, 3>>, <<3, 4>>, <<4, 1>> >>

\* Gate.__init__: the square mesh of a gate of size s
gate_vertices(s) == << <<-s, -s, 0>>, <<s, -s, 0>>, <<s, s, 0>>, <<-s, s, 0>> >>
gate_edges == << <<0, 1>>, <<1, 2>>, <<2, 3>>, <<3, 0>> >>

(***************************************************************************)
(* SpecRender: one object handed to the renderer under one camera.         *)
(***************************************************************************)
\* cameras: the chase camera behind the origin, a view along +x, a view
\* straight down, a camera sitting on its target, and an up vector along the view
RenderCameras ==
    {RenderCamera(<<0, 0, -200>>, Zero3, <<0, 1, 0>>),
     RenderCamera(<<-40, 0, 0>>, Zero3, <<0, 1, 0>>),
     RenderCamera(<<0, 400, 0>>, Zero3, <<0, 0, 1>>),
     RenderCamera(Zero3, Zero3, <<0, 1, 0>>),
     RenderCamera(<<0, 0, -200>>, Zero3, <<0, 0, 1>>)}
\* where the object is
RenderPositions ==
    {Zero3, <<0, 0, -118>>, <<0, 0, -119>>, <<0, 0, -270>>, <<0, 0, -198>>,
     <<0, 0, -199>>, <<0, 0, -400>>, <<60, 0, 0>>}
\* how it is turned: not at all, half a turn about Y, half a turn about X
RenderOrientations == {<<1, 0, 0, 0>>, <<0, 0, 1, 0>>, <<0, 1, 0, 0>>}
\* its mesh: the ship, a gate of size 25 m
RenderMeshes ==
    {[vertices |-> SHIP_VERTICES, edges |-> SHIP_EDGES],
     [vertices |-> gate_vertices(100), edges |-> gate_edges]}

InitRender ==
    /\ camera \in RenderCameras
    /\ scene \in {[position |-> p, orientation |-> o, vertices |-> m.vertices,
                   edges |-> m.edges] :
                     p \in RenderPositions, o \in RenderOrientations, m \in RenderMeshes}
    /\ projected = <<>>
    /\ screen = <<>>
    /\ pc = "render"
    /\ exc = "none"
    /\ ship = Spaceship(Zero3, Zero3, Zero3, 1000)
    /\ op = "init"
    /\ calls = 0
    /\ frame_start = ship
    /\ frame_calls = <<>>
    /\ last_dt = 0
    /\ IdleGame
    /\ scene_gates = <<>>
    /\ scene_asteroids = <<>>
    /\ course_file = NoFile
    /\ selected_object = <<>>
    /\ quat = <<>>

notrender == <<ship, op, calls, frame_start, frame_calls, last_dt, settings, joystick,
               scene_gates, scene_asteroids, camera, current_gate_index, game_over,
               running, dt, keys, axes, exc, course_file, selected_object, scene,
               quat>>

\* p = camera.project_point(obj.position), as the designer does for its
\* labels and its click selection
ProjectPosition ==
    /\ pc = "render"
    /\ projected' = <<project_point(camera, scene.position)>>
    /\ pc' = "projected"
    /\ UNCHANGED screen
    /\ UNCHANGED notrender

\* draw_wireframe_object(screen, camera, position, orientation, vertices, edges, color)
DrawWireframe ==
    /\ pc = "render"
    /\ projected' = screen_points(camera, scene)
    /\ screen' = draw_lines(screen, projected', scene.edges)
    /\ pc' = "drawn"
    /\ UNCHANGED notrender

NextRender == ProjectPosition \/ DrawWireframe

SpecRender == InitRender /\ [][NextRender]_vars

\* the world points whose projections the state holds, in the order of projected
ProjectedPoints ==
    IF pc = "projected" THEN <<scene.position>>
    ELSE IF pc = "drawn" THEN world_vertices(scene)
    ELSE <<>>

\* the camera-space depth of world point w
Depth(w) == camera_space(camera, w)[3]

\* C15: project_point returns None for every world point of depth less than
\* near_plane and a pair of (finite) integer screen coordinates for every world
\* point of depth greater than near_plane.
C15_NearPlaneClip ==
    \A k \in 1..Len(ProjectedPoints) :
       LET w == ProjectedPoints[k]
       IN /\ Depth(w) < camera.near_plane => projected[k] = None
          /\ Depth(w) > camera.near_plane =>
                /\ projected[k] # None
                /\ Len(projected[k]) = 2
                /\ projected[k][1] \in Int
                /\ projected[k][2] \in Int

\* C15 witness: one draw projected a vertex in front of the near plane and a
\* vertex between the camera and the near plane
C15_Witness ==
    /\ pc = "drawn"
    /\ \E i, k \in 1..Len(projected) :
          /\ Depth(ProjectedPoints[i]) > camera.near_plane /\ projected[i] # None
          /\ Depth(ProjectedPoints[k]) = 1 /\ projected[k] = None

\* C16 as stated: a world point at depth exactly near_plane is not visible:
\* project_point returns None for it.
C16_BoundaryClippedAsStated ==
    \A k \in 1..Len(ProjectedPoints) :
       Depth(ProjectedPoints[k]) = camera.near_plane => projected[k] = None

\* C16 amended: a world point at depth exactly near_plane is visible:
\* project_point returns its screen point (only depths strictly less than
\* near_plane are clipped).
C16_BoundaryVisible ==
    \A k \in 1..Len(ProjectedPoints) :
       Depth(ProjectedPoints[k]) = camera.near_plane =>
          /\ projected[k] # None
          /\ projected[k] = screen_point(camera, camera_space(camera, ProjectedPoints[k]))

\* C16 witness: the point straight ahead of the chase camera at depth
\* near_plane was projected to the centre of the screen
C16_Witness ==
    /\ pc = "projected"
    /\ camera.position = <<0, 0, -200>>
    /\ camera.up = <<0, 1, 0>>
    /\ scene.position = <<0, 0, -198>>
    /\ projected = << <<640, 360>> >>

\* the edges (by their place in the edge list) with both endpoints projected
VisibleEdges ==
    {k \in 1..Len(scene.edges) :
        /\ projected[scene.edges[k][1] + 1] # None
        /\ projected[scene.edges[k][2] + 1] # None}

\* C17: draw_wireframe_object draws exactly one line for every edge whose two
\* endpoints project to a screen point, none for any other edge, in edge-list
\* order: the n-th line drawn joins the endpoints of the n-th visible edge.
C17_EdgesDrawn ==
    pc = "drawn" =>
        /\ Len(screen) = Cardinality(VisibleEdges)
        /\ \A n \in 1..Len(screen) :
              \E k \in VisibleEdges :
                 /\ Cardinality({j \in VisibleEdges : j < k}) = n - 1
                 /\ screen[n] = <<projected[scene.edges[k][1] + 1],
                                  projected[scene.edges[k][2] + 1]>>

\* C17 witness: a draw with some edges drawn and some skipped
C17_Witness ==
    /\ pc = "drawn"
    /\ Len(screen) > 0
    /\ Len(screen) < Len(scene.edges)
    /\ \E k \in 1..Len(scene.edges) :
          /\ projected[scene.edges[k][1] + 1] # None
          /\ projected[scene.edges[k][2] + 1] = None

(***************************************************************************)
(* Course designer (designer.py).  One action is one frame of its loop     *)
(* with one event, or with one arrow key held.  scene_gates and            *)
(* scene_asteroids are its lists, selected_object is None (<<>>) or the    *)
(* pair (kind, index) with the 0-based index of the code, course_file is   *)
(* the content of the current file, frame_calls the operations so far.     *)
(***************************************************************************)
MaxDesignerSteps == 5

\* variant: the gates are numbered n..1
save_course_to_file_descending(gates, asteroids) ==
    [status |-> "json",
     race_gates |-> [i \in 1..Len(gates) |->
        [gate_number |-> Len(gates) + 1 - i, position |-> gates[i].position,
         orientation |-> gates[i].orientation, size |-> gates[i].size]],
     asteroids |-> [i \in 1..Len(asteroids) |->
        [model_id |-> asteroids[i].model_id, position |-> asteroids[i].position,
         orientation |-> asteroids[i].orientation, size |-> asteroids[i].size,
         angular_velocity |-> asteroids[i].angular_velocity]]]

\* save_course_to_file: the content written; enumerate counts from 0, the
\* sequence index i from 1, so "gate_number": i + 1 is the index itself
save_course_to_file(gates, asteroids) ==
    [status |-> "json",
     race_gates |-> [i \in 1..Len(gates) |->
        [gate_number |-> (i - 1) + 1, position |-> gates[i].position,
         orientation |-> gates[i].orientation, size |-> gates[i].size]],
     asteroids |-> [i \in 1..Len(asteroids) |->
        [model_id |-> asteroids[i].model_id, position |-> asteroids[i].position,
         orientation |-> asteroids[i].orientation, size |-> asteroids[i].size,
         angular_velocity |-> asteroids[i].angular_velocity]]]

\* list.pop(idx), idx counted from 0
pop(list, idx) == [k \in 1..(Len(list) - 1) |-> IF k <= idx THEN list[k] ELSE list[k + 1]]

\* move_speed = 500*dt, dt = clock.tick(60)/1000.0 with the tick in milliseconds
move_speed(tick) == (500 * tick) \div 1000

\* obj.position[0] += amount for the object at 0-based idx of list
moved(list, idx, amount) ==
    [list EXCEPT ![idx + 1].position = add_vectors(@, <<amount, 0, 0>>)]

\* all_objects of the click handler
all_objects(gates, asteroids) ==
    [i \in 1..Len(gates) |-> [kind |-> "gate", idx |-> i - 1, obj |-> gates[i]]]
        \o [i \in 1..Len(asteroids) |->
               [kind |-> "asteroid", idx |-> i - 1, obj |-> asteroids[i]]]

\* what a left click can select: nothing, or an object no earlier object of
\* all_objects shares its position with (the comparison with min_dist_sq is
\* strict, so of two objects on the same pixel the earlier one wins)
click_choices(gates, asteroids) ==
    LET all == all_objects(gates, asteroids)
    IN {<<>>} \cup
       {<<all[k].kind, all[k].idx>> : k \in
           {k \in 1..Len(all) :
               \A j \in 1..(k - 1) : all[j].obj.position # all[k].obj.position}}

\* a course on disk the designer can open: two gates, the second listed first
StockCourse ==
    [status |-> "json",
     race_gates |-> <<[gate_number |-> 2, position |-> <<0, 0, 2000>>,
                       orientation |-> <<0, 0, 1, 0>>, size |-> 400],
                      [gate_number |-> 1, position |-> <<0, 0, 1000>>,
                       orientation |-> <<1, 0, 0, 0>>, size |-> 800]>>,
     asteroids |-> <<AsteroidRecord(300)>>]

\* the tick of a frame, in milliseconds
DesignerTicks == {20}

InitDesigner ==
    /\ scene_gates = <<>>
    /\ scene_asteroids = <<>>
    /\ selected_object = <<>>
    /\ course_file = NoFile
    /\ frame_calls = <<>>
    /\ pc = "designer"
    /\ exc = "none"
    /\ IdleGame
    /\ camera = [position |-> <<0, 0, -50>>, target |-> Zero3, up |-> <<0, 1, 0>>]
    /\ ship = Spaceship(Zero3, Zero3, Zero3, 1000)
    /\ op = "init"
    /\ calls = 0
    /\ frame_start = ship
    /\ last_dt = 0
    /\ scene = <<>>
    /\ screen = <<>>
    /\ projected = <<>>
    /\ quat = <<>>

notdesigner == <<ship, op, calls, frame_start, last_dt, settings, joystick, camera,
                 current_gate_index, game_over, running, dt, keys, axes, pc, exc,
                 scene, screen, projected, quat>>

\* one more frame of the designer loop, running operation name
DesignerFrame(name) ==
    /\ pc = "designer"
    /\ Len(frame_calls) < MaxDesignerSteps
    /\ frame_calls' = Append(frame_calls, name)
    /\ UNCHANGED notdesigner

\* K_g: append a gate at the origin and select it
AddGate ==
    /\ DesignerFrame("add_gate")
    /\ scene_gates' = Append(scene_gates, Gate(Zero3, <<1, 0, 0, 0>>, 800))
    /\ selected_object' = <<"gate", Len(scene_gates') - 1>>
    /\ UNCHANGED <<scene_asteroids, course_file>>

\* K_a: append an asteroid at the origin and select it
AddAsteroid ==
    /\ DesignerFrame("add_asteroid")
    /\ scene_asteroids' = Append(scene_asteroids,
           Asteroid(Zero3, 200, <<1, 0, 0, 0>>, Zero3, "asteroid_jagged_1"))
    /\ selected_object' = <<"asteroid", Len(scene_asteroids') - 1>>
    /\ UNCHANGED <<scene_gates, course_file>>

\* variant: the selection survives the deletion
DeleteSelected_keeps_selection ==
    /\ selected_object # <<>>
    /\ DesignerFrame("delete")
    /\ IF selected_object[1] = "gate"
       THEN /\ scene_gates' = pop(scene_gates, selected_object[2])
            /\ UNCHANGED scene_asteroids
       ELSE /\ scene_asteroids' = pop(scene_asteroids, selected_object[2])
            /\ UNCHANGED scene_gates
    /\ UNCHANGED <<selected_object, course_file>>

\* K_DELETE with an object selected: pop it and clear the selection
DeleteSelected ==
    /\ selected_object # <<>>
    /\ DesignerFrame("delete")
    /\ IF selected_object[1] = "gate"
       THEN /\ scene_gates' = pop(scene_gates, selected_object[2])
            /\ UNCHANGED scene_asteroids
       ELSE /\ scene_asteroids' = pop(scene_asteroids, selected_object[2])
            /\ UNCHANGED scene_gates
    /\ selected_object' = <<>>
    /\ UNCHANGED course_file

\* a frame with K_RIGHT or K_LEFT held and an object selected
MoveSelected ==
    /\ selected_object # <<>>
    /\ \E tick \in DesignerTicks, key \in {"RIGHT", "LEFT"} :
          LET amount == IF key = "RIGHT" THEN move_speed(tick) ELSE -move_speed(tick)
          IN /\ DesignerFrame(IF key = "RIGHT" THEN "move_right" ELSE "move_left")
             /\ IF selected_object[1] = "gate"
                THEN /\ scene_gates' = moved(scene_gates, selected_object[2], amount)
                     /\ UNCHANGED scene_asteroids
                ELSE /\ scene_asteroids' =
                            moved(scene_asteroids, selected_object[2], amount)
                     /\ UNCHANGED scene_gates
    /\ UNCHANGED <<selected_object, course_file>>

\* MOUSEBUTTONDOWN, button 1, in the main view
ClickSelect ==
    /\ DesignerFrame("click")
    /\ selected_object' \in click_choices(scene_gates, scene_asteroids)
    /\ UNCHANGED <<scene_gates, scene_asteroids, course_file>>

\* ctrl+S with a file name chosen
SaveCourse ==
    /\ DesignerFrame("save")
    /\ course_file' = save_course_to_file(scene_gates, scene_asteroids)
    /\ UNCHANGED <<scene_gates, scene_asteroids, selected_object>>

\* ctrl+L: open the stock course or the file saved before
OpenCourse ==
    /\ \E f \in {StockCourse} \cup ({course_file} \ {NoFile}) :
          /\ DesignerFrame("load")
          /\ scene_gates' = load_course_from_file(f).gates
          /\ scene_asteroids' = load_course_from_file(f).asteroids
          /\ course_file' = f
    /\ selected_object' = <<>>

\* generate_random_asteroids(count, field_size): count asteroids; the one drawn
\* here stands for each of them
RandomAsteroidDraws ==
    {Asteroid(<<1000, -500, 0>>, 300, <<1, 0, 0, 0>>, Zero3, "asteroid_tetrahedron")}
generate_random_asteroids(count, drawn) == [k \in 1..count |-> drawn]

\* K_p: extend the asteroid list by 50 random asteroids
AddRandomAsteroids ==
    /\ DesignerFrame("random")
    /\ \E drawn \in RandomAsteroidDraws :
          scene_asteroids' = scene_asteroids \o generate_random_asteroids(50, drawn)
    /\ UNCHANGED <<scene_gates, selected_object, course_file>>

\* ASTEROID_MODEL_IDS = list(ASTEROID_MODELS.keys())
ASTEROID_MODEL_IDS ==
    <<"asteroid_cube_simple", "asteroid_tetrahedron", "asteroid_jagged_1">>

\* max(a, b)
max(a, b) == IF a >= b THEN a ELSE b

\* K_PLUS / K_EQUALS and K_MINUS / K_UNDERSCORE with an asteroid selected
ResizeSelected ==
    /\ selected_object # <<>>
    /\ selected_object[1] = "asteroid"
    /\ DesignerFrame("resize")
    /\ \E key \in {"K_PLUS", "K_MINUS"} :
          LET asteroid == scene_asteroids[selected_object[2] + 1]
              new_size == IF key = "K_PLUS" THEN asteroid.size + 20
                          ELSE max(10, asteroid.size - 20)
          IN scene_asteroids' =
                [scene_asteroids EXCEPT ![selected_object[2] + 1] =
                    set_size(asteroid, new_size)]
    /\ UNCHANGED <<scene_gates, selected_object, course_file>>

\* K_1, K_2, K_3 with an asteroid selected
ChangeModel ==
    /\ selected_object # <<>>
    /\ selected_object[1] = "asteroid"
    /\ DesignerFrame("model")
    /\ \E number \in 1..3 :
          scene_asteroids' =
             [scene_asteroids EXCEPT ![selected_object[2] + 1] =
                 set_model(@, ASTEROID_MODEL_IDS[(number - 1) + 1])]
    /\ UNCHANGED <<scene_gates, selected_object, course_file>>

NextDesigner ==
    \/ AddGate
    \/ AddAsteroid
    \/ DeleteSelected
    \/ MoveSelected
    \/ ClickSelect
    \/ SaveCourse
    \/ OpenCourse
    \/ AddRandomAsteroids
    \/ ResizeSelected
    \/ ChangeModel

SpecDesigner == InitDesigner /\ [][NextDesigner]_vars

\* the last operation of the designer was name
JustDid(name) == frame_calls # <<>> /\ frame_calls[Len(frame_calls)] = name

\* C20: the file save_course_to_file writes numbers the gates 1..n in list
\* order, and load_course_from_file applied to it returns the gates of the
\* designer in the same order with the same position, orientation and size.
C20_SaveNumbersGates ==
    (pc = "designer" /\ JustDid("save")) =>
        LET written == course_file.race_gates
            loaded == load_course_from_file(course_file).gates
        IN /\ Len(written) = Len(scene_gates)
           /\ \A i \in 1..Len(written) : written[i].gate_number = i
           /\ load_raises(course_file) = "none"
           /\ Len(loaded) = Len(scene_gates)
           /\ \A i \in 1..Len(loaded) :
                 /\ loaded[i].position = scene_gates[i].position
                 /\ loaded[i].orientation = scene_gates[i].orientation
                 /\ loaded[i].size = scene_gates[i].size

\* C20 witness: a save of two gates at different places, after gates were
\* inserted and one was deleted
C20_Witness ==
    /\ pc = "designer"
    /\ JustDid("save")
    /\ Len(scene_gates) = 2
    /\ scene_gates[1].position # scene_gates[2].position
    /\ \E k \in 1..Len(frame_calls) : frame_calls[k] = "delete"
    /\ \E k \in 1..Len(frame_calls) : frame_calls[k] = "add_gate"
    /\ course_file.race_gates[2].position = scene_gates[2].position

(***************************************************************************)
(* The order of a frame of main(), checked under Spec.                     *)
(***************************************************************************)
\* C21: in a frame in which the game is not over, the input calls are
\* followed by exactly one Spaceship.update, then the gate-pass check, then
\* the asteroid check, then camera.update; in a frame in which the game is
\* over the frame goes to camera.update with no call of update.  The ship is
\* integrated by no other step.
C21_UpdateOncePerFrame ==
    [][/\ pc = "tick" => pc' = IF game_over THEN "camera" ELSE "keys"
       /\ pc = "keys" => pc' = "joystick"
       /\ pc = "joystick" => pc' = "update"
       /\ pc = "update" => (pc' = "gate" /\ ship' = update(ship, dt))
       /\ pc = "gate" => pc' = "asteroids"
       /\ pc = "asteroids" => pc' = "camera"
       /\ pc \notin {"update", "events"} =>
             /\ ship'.position = ship.position
             /\ ship'.velocity = ship.velocity]_vars

(***************************************************************************)
(* SpecAsteroid: one Asteroid constructed and then driven by any sequence  *)
(* of set_size and set_model calls.  scene holds the constructor arguments *)
(* and then the object, calls counts the method calls.                     *)
(***************************************************************************)
MaxAsteroidCalls == 3

\* sizes: the designer's default, its steps of 20 and its minimum, and 0
AsteroidSizes == {0, 10, 200, 220}
\* model ids: the keys of the library, a key it does not hold, None
AsteroidModelIds == DOMAIN ASTEROID_MODELS \cup {"asteroid_unknown", NoneId}

InitAsteroid ==
    /\ scene \in {[position |-> Zero3, size |-> n, orientation |-> <<1, 0, 0, 0>>,
                   angular_velocity |-> Zero3, model_id |-> m] :
                     n \in AsteroidSizes, m \in AsteroidModelIds}
    /\ pc = "construct"
    /\ exc = "none"
    /\ op = "init"
    /\ calls = 0
    /\ ship = Spaceship(Zero3, Zero3, Zero3, 1000)
    /\ frame_start = ship
    /\ frame_calls = <<>>
    /\ last_dt = 0
    /\ IdleGame
    /\ scene_gates = <<>>
    /\ scene_asteroids = <<>>
    /\ camera = [position |-> <<0, 0, -50>>, target |-> Zero3, up |-> <<0, 1, 0>>]
    /\ course_file = NoFile
    /\ selected_object = <<>>
    /\ screen = <<>>
    /\ projected = <<>>
    /\ quat = <<>>

notasteroid == <<ship, frame_start, frame_calls, last_dt, settings, joystick,
                 scene_gates, scene_asteroids, camera, current_gate_index, game_over,
                 running, dt, keys, axes, course_file, selected_object, screen,
                 projected, quat>>

\* Asteroid(position, size, orientation, angular_velocity, model_id)
Construct ==
    /\ pc = "construct"
    /\ IF Asteroid_raises(scene.model_id)
       THEN /\ exc' = "TypeError"
            /\ pc' = "aborted"
            /\ scene' = scene
       ELSE /\ exc' = exc
            /\ pc' = "built"
            /\ scene' = Asteroid(scene.position, scene.size, scene.orientation,
                                 scene.angular_velocity, scene.model_id)
    /\ op' = "Asteroid"
    /\ UNCHANGED calls
    /\ UNCHANGED notasteroid

\* asteroid.set_size(new_size)
SetSize ==
    /\ pc = "built"
    /\ calls < MaxAsteroidCalls
    /\ \E n \in AsteroidSizes : scene' = set_size(scene, n)
    /\ op' = "set_size"
    /\ calls' = calls + 1
    /\ UNCHANGED <<pc, exc>>
    /\ UNCHANGED notasteroid

\* asteroid.set_model(new_model_id)
SetModel ==
    /\ pc = "built"
    /\ calls < MaxAsteroidCalls
    /\ \E m \in AsteroidModelIds : scene' = set_model(scene, m)
    /\ op' = "set_model"
    /\ calls' = calls + 1
    /\ UNCHANGED <<pc, exc>>
    /\ UNCHANGED notasteroid

NextAsteroid == Construct \/ SetSize \/ SetModel

SpecAsteroid == InitAsteroid /\ [][NextAsteroid]_vars

\* the mesh the claim assigns to model id m: its library entry, the simple
\* cube for any id that is not a key
MeshOf(m) ==
    IF m \in {"asteroid_cube_simple", "asteroid_tetrahedron", "asteroid_jagged_1"}
    THEN ASTEROID_MODELS[m]
    ELSE ASTEROID_MODELS["asteroid_cube_simple"]

\* C22: every construction returns an Asteroid that keeps the model id it was
\* given, unknown or not, and after the construction and after every set_size
\* and set_model call vertices is the base vertices of the mesh of model_id
\* scaled by size and edges is that mesh's edge list; an id that is not a key
\* of the library has the simple cube mesh.
C22_MeshFollowsModelAndSize ==
    [][/\ pc = "construct" =>
             /\ pc' = "built"
             /\ exc' = "none"
             /\ scene'.model_id = scene.model_id
             /\ scene'.size = scene.size
       /\ pc' = "built" =>
             /\ scene'.vertices = scaled(MeshOf(scene'.model_id)[1], scene'.size)
             /\ scene'.edges = MeshOf(scene'.model_id)[2]]_vars

(***************************************************************************)
(* The draw pass of main(), checked under Spec.                            *)
(***************************************************************************)
\* C23: every frame that reaches camera.update goes on to the draw pass, after
\* which gate i carries is_next = TRUE iff i is current_gate_index (counted
\* from 0), so at most one gate is flagged and none once all are passed.
C23_NextGateFlagged ==
    [][CameraStep =>
          /\ exc' = "none"
          /\ \A i \in 1..Len(scene_gates') :
                /\ "is_next" \in DOMAIN scene_gates'[i]
                /\ scene_gates'[i]["is_next"] = (i - 1 = current_gate_index')]_vars

(***************************************************************************)
(* SpecReset: reset_game_state applied to a game in any state: racing,     *)
(* finished or crashed.  frame_start keeps the ship and op the kind of     *)
(* state the reset found.                                                  *)
(***************************************************************************)
\* where the ship is and how it moves and turns when R is pressed
ResetPositions == {Zero3, <<0, 5, 1200>>}
ResetVelocities == {Zero3, <<0, 2, -1>>}
ResetOrientations == {<<1, 0, 0, 0>>, <<1, -2, 0>>}
ResetSpins == {Zero3, <<0, -2, 0>>}

\* the first k gates of gates passed
passed_prefix(gates, k) ==
    [j \in 1..Len(gates) |-> [gates[j] EXCEPT !.is_passed = (j <= k)]]

InitReset ==
    /\ \E sv \in {Zero3, <<0, 0, 999>>} :
          settings = [starting_vector |-> sv, ship_weight |-> 1000,
                      max_forward_thruster |-> 40000, invert_pitch |-> TRUE]
    /\ \E p \in ResetPositions, v \in ResetVelocities, o \in ResetOrientations,
          w \in ResetSpins :
          ship = [Spaceship(p, v, o, settings.ship_weight) EXCEPT !.angular_velocity = w]
    /\ \E gates \in SeqsUpTo(GateChoices, MaxGates) :
          /\ current_gate_index \in 0..Len(gates)
          /\ scene_gates = passed_prefix(gates, current_gate_index)
    /\ scene_asteroids \in SeqsUpTo(AsteroidChoices, 1)
    /\ game_over \in BOOLEAN
    /\ running = TRUE
    /\ joystick = FALSE
    /\ dt = 0
    /\ keys = {}
    /\ axes = NoAxes
    /\ camera = Camera
    /\ pc = "events"
    /\ exc = "none"
    /\ op = "init"
    /\ calls = 0
    /\ frame_start = ship
    /\ frame_calls = <<>>
    /\ last_dt = 0
    /\ IdleExtras

\* the KEYDOWN event of K_r: current_gate_index, game_over =
\* reset_game_state(ship, scene_gates, settings)
ResetGame ==
    /\ pc = "events"
    /\ LET g == reset_game_state([ship |-> ship, scene_gates |-> scene_gates,
                                  current_gate_index |-> current_gate_index,
                                  game_over |-> game_over, running |-> running],
                                 settings)
       IN /\ ship' = g.ship
          /\ scene_gates' = g.scene_gates
          /\ current_gate_index' = g.current_gate_index
          /\ game_over' = g.game_over
          /\ running' = g.running
    /\ pc' = "reset"
    /\ frame_start' = ship
    /\ op' = IF game_over THEN "crashed"
             ELSE IF current_gate_index >= Len(scene_gates) THEN "finished"
             ELSE "racing"
    /\ UNCHANGED <<calls, frame_calls, last_dt, settings, joystick, scene_asteroids,
                   camera, dt, keys, axes, exc, course_file, selected_object, scene,
                   screen, projected, quat>>

NextReset == ResetGame

SpecReset == InitReset /\ [][NextReset]_vars

\* C24: reset_game_state leaves current_gate_index = 0, game_over = FALSE,
\* every gate not passed, the ship at the configured starting vector with zero
\* velocity and zero angular velocity; the asteroids and the gates' positions,
\* orientations and sizes are unchanged.
C24_ResetRestoresStart ==
    [][(pc = "events" /\ pc' = "reset") =>
          /\ current_gate_index' = 0
          /\ game_over' = FALSE
          /\ ship'.position = settings.starting_vector
          /\ ship'.velocity = Zero3
          /\ ship'.angular_velocity = Zero3
          /\ scene_asteroids' = scene_asteroids
          /\ Len(scene_gates') = Len(scene_gates)
          /\ \A i \in 1..Len(scene_gates') :
                /\ scene_gates'[i].is_passed = FALSE
                /\ scene_gates'[i].position = scene_gates[i].position
                /\ scene_gates'[i].orientation = scene_gates[i].orientation
                /\ scene_gates'[i].size = scene_gates[i].size]_vars

\* C24 witness: a reset of a crashed game in which the ship was away from the
\* start and moving and a gate had been passed
C24_Witness ==
    /\ pc = "reset"
    /\ op = "crashed"
    /\ frame_start.position # settings.starting_vector
    /\ frame_start.velocity # Zero3
    /\ frame_start.angular_velocity # Zero3
    /\ ship.position = settings.starting_vector
    /\ ship.velocity = Zero3
    /\ Len(scene_gates) = 2
    /\ ~scene_gates[1].is_passed
    /\ current_gate_index = 0
    /\ ~game_over

\* C25: in the game loop the ship's orientation has four components (w, x, y,
\* z) at every step: after reset_game_state and after any number of
\* Spaceship.update calls.
C25_FourComponents == Len(ship.orientation) = 4

\* C26: in the designer selected_object is None or a (kind, index) pair whose
\* index is within the gate list (kind "gate") or the asteroid list (kind
\* "asteroid"), after every event; right after a deletion and right after a
\* load nothing is selected.
C26_SelectionInBounds ==
    pc = "designer" =>
        /\ \/ selected_object = <<>>
           \/ /\ Len(selected_object) = 2
              /\ selected_object[1] \in {"gate", "asteroid"}
              /\ selected_object[2] >= 0
              /\ selected_object[1] = "gate" => selected_object[2] < Len(scene_gates)
              /\ selected_object[1] = "asteroid" =>
                    selected_object[2] < Len(scene_asteroids)
        /\ (JustDid("delete") \/ JustDid("load")) => selected_object = <<>>

\* C26 witness: the last of several objects of its kind was selected and has
\* just been deleted, leaving others behind
C26_Witness ==
    /\ pc = "designer"
    /\ JustDid("delete")
    /\ selected_object = <<>>
    /\ Len(frame_calls) >= 3
    /\ frame_calls[Len(frame_calls) - 1] \in {"add_gate", "add_asteroid"}
    /\ Len(scene_gates) + Len(scene_asteroids) >= 1

\* C27: a degenerate camera is guarded.  With position = target the forward
\* vector stays the zero vector (no division by its norm), every projected
\* point has depth 0 and project_point returns None for it; with up parallel
\* to forward the right vector stays the zero vector and every point is
\* either clipped or projected to a pair of integers.
C27_DegenerateCameraGuarded ==
    LET forward_raw == sub_vectors(camera.target, camera.position)
        forward == normalized(forward_raw)
        right_raw == cross(forward, camera.up)
    IN pc \in {"projected", "drawn"} =>
          /\ norm_squared(forward_raw) = 0 =>
                /\ forward = Zero3
                /\ \A k \in 1..Len(ProjectedPoints) :
                      /\ Depth(ProjectedPoints[k]) = 0
                      /\ projected[k] = None
                /\ pc = "drawn" => screen = <<>>
          /\ norm_squared(right_raw) = 0 =>
                /\ normalized(right_raw) = Zero3
                /\ \A k \in 1..Len(ProjectedPoints) :
                      \/ projected[k] = None
                      \/ /\ Len(projected[k]) = 2
                         /\ projected[k][1] \in Int
                         /\ projected[k][2] \in Int

\* C27 witness: a mesh away from the origin drawn by a camera that sits on
\* its target: every vertex clipped, no line drawn
C27_Witness ==
    /\ pc = "drawn"
    /\ camera.position = camera.target
    /\ scene.position # camera.position
    /\ Len(projected) = Len(scene.vertices)
    /\ \A k \in 1..Len(projected) : projected[k] = None
    /\ screen = <<>>

====
